---- MODULE Spec2Model ----
(***************************************************************************)
(* AutoGooglePlayAnalyzer: the review-analysis pipeline of analyzer.py     *)
(* (ReviewAnalyzer: fetch, concurrent batch annotation, aggregation,       *)
(* synthesis, report persistence) with the configuration of config.py,     *)
(* the connection pool and review table of database.py, the scraper of     *)
(* scraper.py, the scrape-and-store pipeline of main.py and the export of  *)
(* export_reviews.py.                                                       *)
(***************************************************************************)
EXTENDS Integers, Sequences, FiniteSets, TLC

VARIABLES
    OPENAI_API_KEY,     \* Config.OPENAI_API_KEY: PyNone when the variable is unset
    APP_ID,             \* Config.APP_ID: a tuple of characters, <<>> when empty
    BATCH_SIZE,         \* Config.BATCH_SIZE
    pc,                 \* the driver's position in main() / run_analysis()
    error,              \* the exception that left main(), "none" when none did
    connection_pool,    \* DatabaseManager._connection_pool: PyNone, "open", "closed"
    checked_out,        \* connections taken from the pool and not yet put back
    store_fetches,      \* SELECT statements sent to the store
    reviews,            \* run_analysis: the fetched rows
    tasks,              \* run_analysis: one record per process_batch coroutine
    done_order,         \* indices of the tasks in the order they finished
    annot_calls,        \* chat.completions.create calls made by process_batch
    all_annotations,    \* run_analysis: the flattened gather results
    stats,              \* run_analysis: what aggregate_stats returned
    synth_calls,        \* calls of generate_final_report
    final_report,       \* run_analysis: what generate_final_report returned
    files,              \* the reports directory: a set of [path, content]
    writes,             \* files opened for writing by this run
    perm_annotations,   \* aggregation study: a permutation of all_annotations
    perm_stats,         \* aggregation study: aggregate_stats of the permutation
    pools_created,      \* SimpleConnectionPool objects constructed by this process
    table,              \* google_play_reviews: PyNone before CREATE TABLE, else its rows
    store_log,          \* the DatabaseManager calls and store operations made, in order
    target_count,       \* fetch_reviews: target_count, as passed and as rebound (an IntArg)
    batch_size,         \* fetch_reviews: batch_size
    all_reviews,        \* fetch_reviews: all_reviews
    continuation_token, \* fetch_reviews: continuation_token
    pages               \* the results of the page requests fetch_reviews made

vars == <<OPENAI_API_KEY, APP_ID, BATCH_SIZE, pc, error, connection_pool,
          checked_out, store_fetches, reviews, tasks, done_order, annot_calls,
          all_annotations, stats, synth_calls, final_report, files, writes,
          perm_annotations, perm_stats, pools_created, table, store_log,
          target_count, batch_size, all_reviews, continuation_token, pages>>

storeVars == <<pools_created, table, store_log>>

scraperVars == <<target_count, batch_size, all_reviews, continuation_token, pages>>

analyzerVars == <<OPENAI_API_KEY, APP_ID, BATCH_SIZE, store_fetches, reviews, tasks,
                  done_order, annot_calls, all_annotations, stats, synth_calls,
                  final_report, files, writes, perm_annotations, perm_stats>>

-----------------------------------------------------------------------------
(* Bounds of the model *)

MaxReviews == 3
MaxBatchSize == 2
MaxTime == 2
MaxAnn == 3
MaxPct == 6
MaxEv == 5
MaxBatchReviews == 5
MaxStoreOps == 3
MaxPoolCalls == 4
MaxTarget == 3
MaxPage == 2

(* Program constants *)

TopN == 10
EvidenceMax == 3

-----------------------------------------------------------------------------
(* Python values *)

PyNone == "<None>"          \* Python's None
Missing == "<missing>"      \* a key that is absent from a dict

Min(a, b) == IF a < b THEN a ELSE b

\* an optional integer argument: None, or an integer
NoneArg == [none |-> TRUE, value |-> 0]

IntArg(n) == [none |-> FALSE, value |-> n]

\* Python's "arg or default": the default when arg is None or 0
py_or(arg, default) == IF arg.none \/ arg.value = 0 THEN default ELSE arg.value

\* no DatabaseManager call has been made and no table created
StoreIdle ==
    /\ pools_created = 0
    /\ table = PyNone
    /\ store_log = <<>>

\* fetch_reviews has not been called
ScraperIdle ==
    /\ target_count = NoneArg
    /\ batch_size = PyNone
    /\ all_reviews = <<>>
    /\ continuation_token = PyNone
    /\ pages = <<>>

\* s[lo:hi] of Python for 0 <= lo: the elements lo+1 .. min(hi, len(s))
Slice(s, lo, hi) == SubSeq(s, lo + 1, Min(hi, Len(s)))

\* range(start, stop, step) for step > 0
RECURSIVE PyRange(_, _, _)
PyRange(start, stop, step) ==
    IF start >= stop THEN <<>>
    ELSE <<start>> \o PyRange(start + step, stop, step)

\* the list built by extending [] with every element of a list of lists
RECURSIVE Flatten(_)
Flatten(ls) ==
    IF ls = <<>> THEN <<>> ELSE Head(ls) \o Flatten(Tail(ls))

-----------------------------------------------------------------------------
(* Config *)

AppIds == { <<>>, <<"a", ".", "b">> }

\* Config.validate: False when the credential or the app identifier is
\* missing, True otherwise; it never raises
Config_validate(key, app) ==
    LET e1 == (key = PyNone)
        e2 == (app = <<>>)
    IN  ~(e1 \/ e2)

\* AsyncOpenAI(api_key=...): the client library raises when it is given no key
AsyncOpenAI_raises(key) == key = PyNone

\* APP_ID.replace('.', '_')
replace_dots(app) == [i \in 1..Len(app) |-> IF app[i] = "." THEN "_" ELSE app[i]]

-----------------------------------------------------------------------------
(* The store and the pool *)

Contents == {"txt", PyNone}     \* content is a nullable TEXT column

\* rows of one SELECT ... ORDER BY at DESC LIMIT limit
StoreRows(limit) ==
    UNION { { [i \in 1..n |-> [content |-> cs[i], at |-> n - i + 1]] :
                cs \in [1..n -> Contents] } : n \in 0..limit }

TOTAL_TO_ANALYZE == MaxReviews

\* the class attribute and the pool it refers to, as a record: pool is
\* _connection_pool, out the connections handed out, created the pools built,
\* raised the exception of the last call ("none" when it returned)
PoolState(pool, out, created) ==
    [pool |-> pool, out |-> out, created |-> created, raised |-> "none"]

\* DatabaseManager.initialize_pool: builds the pool only when there is none;
\* up tells whether the database accepts connections
initialize_pool(p, up) ==
    IF p.pool = PyNone
    THEN IF up THEN [p EXCEPT !.pool = "open", !.created = @ + 1]
         ELSE [p EXCEPT !.raised = "DatabaseError"]
    ELSE p

\* DatabaseManager.get_connection: getconn() raises PoolError on a closed
\* pool and has to open a connection when none is idle (the one kept idle
\* is handed out, or was dropped because it was broken); up tells whether it
\* finds an idle connection or can open one
get_connection(p, up) ==
    LET q == IF p.pool = PyNone THEN initialize_pool(p, up) ELSE p
    IN  IF q.raised # "none" THEN q
        ELSE IF q.pool = "closed" THEN [q EXCEPT !.raised = "PoolError"]
        ELSE IF ~up THEN [q EXCEPT !.raised = "DatabaseError"]
        ELSE [q EXCEPT !.out = @ + 1]

\* DatabaseManager.release_connection: putconn when there is a pool; putconn
\* raises PoolError on a closed pool and the connection is not taken back
release_connection(pool, out) == IF pool = "open" THEN out - 1 ELSE out

release_raises(pool) == pool = "closed"

\* closing the pool and dropping the reference to it
CloseAndForget(pool) == PyNone

\* DatabaseManager.close_all_connections: closeall() when there is a pool;
\* the attribute keeps referring to the closed pool
close_all_connections(pool) == IF pool = "open" THEN "closed" ELSE pool

\* closeall() raises PoolError on a pool that is already closed
close_all_raises(pool) == pool = "closed"

\* get_reviews_from_db, the try/finally around the query: the connection
\* goes back whether or not the query raised
ReleaseOnlyOnSuccess(pool, out, ok) ==
    IF ok THEN release_connection(pool, out) ELSE out

get_reviews_finally(pool, out, ok) == release_connection(pool, out)

\* run_analysis: "if not reviews: return"
NeverEmpty(rows) == FALSE

IsEmptyFetch(rows) == Len(rows) = 0

-----------------------------------------------------------------------------
(* The Batcher *)

\* the slice taken for loop index i, cut one short
BatchShort(rows, i, size) == Slice(rows, i, i + size - 1)

\* run_analysis: batch = reviews[i:i+batch_size]
Batch(rows, i, size) == Slice(rows, i, i + size)

\* run_analysis: batch_id = (i // batch_size) + 1
BatchId(i, size) == (i \div size) + 1

\* run_analysis: the coroutines appended to tasks, in loop order
MakeTasks(rows, size) ==
    LET starts == PyRange(0, Len(rows), size)
    IN  [k \in 1..Len(starts) |->
            [batch_id |-> BatchId(starts[k], size),
             batch    |-> Batch(rows, starts[k], size),
             st       |-> "created",
             failed   |-> FALSE,
             result   |-> <<>>]]

\* process_batch, the loop building reviews_text: r['content'][:300] raises
\* TypeError when a content is None; the loop is outside the try
PromptRaises(batch) == \E i \in 1..Len(batch) : batch[i].content = PyNone

-----------------------------------------------------------------------------
(* The annotation client *)

Ann(u, p, c, s) == [u |-> u, p |-> p, c |-> c, s |-> s]

A1 == Ann("U1", "P1", "Bug", "q1")
A2 == Ann("U2", "P1", "Bug", "q2")

FailureKinds == {"client_error", "timeout", "malformed_json"}

\* what one annotation request can come back with
Responses ==
    { [kind |-> k, annotations |-> <<>>] : k \in FailureKinds }
    \cup { [kind |-> "ok", annotations |-> as] :
                as \in {<<>>, <<A1>>, <<A2>>, <<A1, A2>>} }

\* a failure that keeps an annotation read before the exception
KeepOnFailure(resp) ==
    IF resp.kind = "ok" THEN resp.annotations ELSE <<A1>>

\* process_batch, the try block: the parsed annotations, [] on any exception
process_batch_result(resp) ==
    IF resp.kind = "ok" THEN resp.annotations ELSE <<>>

-----------------------------------------------------------------------------
(* The Aggregator.  A dict is the sequence of its items in insertion order. *)

\* d.get(key, default), on the value v held (Missing when the key is absent)
Get(v, default) == IF v = Missing THEN default ELSE v

Keys(d) == { d[i].k : i \in DOMAIN d }

\* dict equality of Python: the same items, in whatever order
DictEq(d1, d2) == { d1[i] : i \in DOMAIN d1 } = { d2[i] : i \in DOMAIN d2 }

\* the r-th smallest member of a set of integers
Nth(S, r) == CHOOSE x \in S : Cardinality({y \in S : y < x}) = r - 1

\* the positions at which a key occurs for the first time, and the items of
\* a dict whose keys are inserted in that order
FirstAt(ks) == { i \in 1..Len(ks) : \A j \in 1..(i - 1) : ks[j] # ks[i] }

\* counts taken run by run, as itertools.groupby would without a sort: each
\* key keeps the length of its last run
GroupbyCounter(ks) ==
    LET first == FirstAt(ks)
        last(key) == CHOOSE i \in 1..Len(ks) :
                        ks[i] = key /\ \A j \in (i + 1)..Len(ks) : ks[j] # key
        run(key) == { i \in 1..last(key) : \A j \in i..last(key) : ks[j] = key }
    IN  [r \in 1..Cardinality(first) |->
            [k |-> ks[Nth(first, r)], n |-> Cardinality(run(ks[Nth(first, r)]))]]

\* collections.Counter(iterable): one item per distinct key, in order of
\* first occurrence, holding the number of occurrences
Counter(ks) ==
    LET first == FirstAt(ks)
    IN  [r \in 1..Cardinality(first) |->
            [k |-> ks[Nth(first, r)],
             n |-> Cardinality({ j \in 1..Len(ks) : ks[j] = ks[Nth(first, r)] })]]

\* the first n items in insertion order, whatever their counts
first_inserted(cnt, n) == SubSeq(cnt, 1, Min(n, Len(cnt)))

\* Counter.most_common(n): the items by descending count, items of equal
\* count in insertion order, cut to the first n
most_common(cnt, n) ==
    LET before(i) == { j \in DOMAIN cnt :
                         cnt[j].n > cnt[i].n \/ (cnt[j].n = cnt[i].n /\ j < i) }
        at(r) == CHOOSE i \in DOMAIN cnt : Cardinality(before(i)) = r - 1
    IN  [r \in 1..Min(n, Len(cnt)) |-> cnt[at(r)]]

\* the percentage in tenths, rounded up
PercentCeil(v, total) == (1000 * v + total - 1) \div total

\* f"{(v/total)*100:.1f}": the percentage in tenths, rounded half to even
Percent(v, total) ==
    LET q == (1000 * v) \div total
        r == (1000 * v) % total
    IN  IF 2 * r > total THEN q + 1
        ELSE IF 2 * r = total THEN q + (q % 2)
        ELSE q

\* aggregate_stats.to_pct
to_pct(cnt, total) ==
    LET top == most_common(cnt, TopN)
    IN  [i \in 1..Len(top) |->
            [k |-> top[i].k, count |-> top[i].n, percent |-> Percent(top[i].n, total)]]

UsageKeys(as) == [i \in 1..Len(as) |-> Get(as[i].u, "Unknown")]
PersonaKeys(as) == [i \in 1..Len(as) |-> Get(as[i].p, "Unknown")]

IsDefect(a) == Get(a.c, PyNone) # "None"

ConKeys(as) ==
    LET kept == SelectSeq(as, IsDefect)
    IN  [i \in 1..Len(kept) |-> Get(kept[i].c, "Unknown")]

\* the evidence loop's test without its "Unknown" clause
HasEvidenceUnknown(a) ==
    LET c_type == Get(a.c, PyNone)
    IN  c_type # PyNone /\ c_type # "" /\ c_type # "None"

\* aggregate_stats, the test guarding the evidence loop's body
HasEvidence(a) ==
    LET c_type == Get(a.c, PyNone)
    IN  c_type # PyNone /\ c_type # "" /\ c_type # "None" /\ c_type # "Unknown"

\* aggregate_stats, the evidence loop: a key per defect type in order of
\* first occurrence, holding the quotes of its first EvidenceMax annotations
Evidence(as) ==
    LET kept  == SelectSeq(as, HasEvidence)
        types == [i \in 1..Len(kept) |-> kept[i].c]
        first == FirstAt(types)
        of(key) == { i \in 1..Len(kept) : types[i] = key }
    IN  [r \in 1..Cardinality(first) |->
            LET key == types[Nth(first, r)]
            IN  [k |-> key,
                 quotes |-> [q \in 1..Min(EvidenceMax, Cardinality(of(key))) |->
                                Get(kept[Nth(of(key), q)].s, "")]]]

\* aggregate_stats on the empty list: {}
EmptyStats ==
    [total_samples |-> 0, usage_stats |-> <<>>, persona_stats |-> <<>>,
     con_stats |-> <<>>, evidence |-> <<>>]

aggregate_stats(as) ==
    LET total == Len(as)
    IN  IF total = 0 THEN EmptyStats
        ELSE [total_samples |-> total,
              usage_stats   |-> to_pct(Counter(UsageKeys(as)), total),
              persona_stats |-> to_pct(Counter(PersonaKeys(as)), total),
              con_stats     |-> to_pct(Counter(ConKeys(as)), total),
              evidence      |-> Evidence(as)]

\* AggregatedStats equality, dimension by dimension
StatsEq(s1, s2) ==
    /\ s1.total_samples = s2.total_samples
    /\ DictEq(s1.usage_stats, s2.usage_stats)
    /\ DictEq(s1.persona_stats, s2.persona_stats)
    /\ DictEq(s1.con_stats, s2.con_stats)
    /\ DictEq(s1.evidence, s2.evidence)

-----------------------------------------------------------------------------
(* The Synthesizer and the report file *)

ReportText == "report"
FailureSentinel == "Failed to generate final report."

\* a synthesizer that lets the client's exception through
generate_final_report_raising(ok) ==
    IF ok THEN [raised |-> FALSE, value |-> ReportText]
    ELSE [raised |-> TRUE, value |-> PyNone]

\* generate_final_report: the narrative, the sentinel when the call raised
generate_final_report(ok) ==
    IF ok THEN [raised |-> FALSE, value |-> ReportText]
    ELSE [raised |-> FALSE, value |-> FailureSentinel]

\* run_analysis: reports/audit_<app id, dots replaced>_<timestamp>.md
ReportPath(app, t) == [app |-> replace_dots(app), timestamp |-> t]

\* open(path, "w") and write: the file holds the text alone
WriteFile(fs, path, text) ==
    { f \in fs : f.path # path } \cup { [path |-> path, content |-> <<text>>] }

\* asyncio.gather resolving as soon as one task has returned
AnyReturned(ts) == \E k \in DOMAIN ts : ts[k].st = "returned"

\* asyncio.gather: the result is set when every task has returned
AllReturned(ts) == \A k \in DOMAIN ts : ts[k].st = "returned"

\* results listed in the order the tasks finished
ResultsByCompletion(ts, order) == [j \in 1..Len(order) |-> ts[order[j]].result]

\* asyncio.gather: results in the order of the awaitables passed in
GatherResults(ts, order) == [k \in 1..Len(ts) |-> ts[k].result]

AllStarted(ts) == \A k \in DOMAIN ts : ts[k].st # "created"

-----------------------------------------------------------------------------
(* The pipeline driver: main() and ReviewAnalyzer.run_analysis *)

OldReport == [path |-> ReportPath(<<"a", ".", "b">>, 1), content |-> <<"old">>]

Init ==
    /\ OPENAI_API_KEY \in {PyNone, "sk"}
    /\ APP_ID \in AppIds
    /\ BATCH_SIZE \in 1..MaxBatchSize
    /\ pc = "start"
    /\ error = "none"
    /\ connection_pool = PyNone
    /\ checked_out = 0
    /\ store_fetches = 0
    /\ reviews = <<>>
    /\ tasks = <<>>
    /\ done_order = <<>>
    /\ annot_calls = 0
    /\ all_annotations = <<>>
    /\ stats = EmptyStats
    /\ synth_calls = 0
    /\ final_report = PyNone
    /\ files \in { {}, {OldReport} }
    /\ writes = 0
    /\ perm_annotations = <<>>
    /\ perm_stats = EmptyStats
    /\ StoreIdle
    /\ ScraperIdle

\* ReviewAnalyzer.__init__: the value of Config.validate() is dropped; the
\* client constructor is what can raise
Construct ==
    /\ pc = "start"
    /\ LET valid == Config_validate(OPENAI_API_KEY, APP_ID)
       IN  IF AsyncOpenAI_raises(OPENAI_API_KEY)
           THEN pc' = "raised" /\ error' = "OpenAIError"
           ELSE pc' = "fetch" /\ error' = error
    /\ UNCHANGED <<OPENAI_API_KEY, APP_ID, BATCH_SIZE, connection_pool, checked_out,
                   store_fetches, reviews, tasks, done_order, annot_calls,
                   all_annotations, stats, synth_calls, final_report, files, writes,
                   perm_annotations, perm_stats,
                   storeVars, scraperVars>>

\* get_reviews_from_db: DatabaseManager.get_connection(), which builds the
\* pool on first use and raises when the database cannot be reached
FetchConnect ==
    /\ pc = "fetch"
    /\ \E up \in BOOLEAN :
        LET r == get_connection(PoolState(connection_pool, checked_out, pools_created), up)
        IN  /\ connection_pool' = r.pool
            /\ checked_out' = r.out
            /\ pools_created' = r.created
            /\ IF r.raised = "none"
               THEN pc' = "fetch_query" /\ error' = error
               ELSE pc' = "raised" /\ error' = r.raised
    /\ UNCHANGED <<OPENAI_API_KEY, APP_ID, BATCH_SIZE, store_fetches, reviews, tasks,
                   done_order, annot_calls, all_annotations, stats, synth_calls,
                   final_report, files, writes, perm_annotations, perm_stats,
                   table, store_log, scraperVars>>

\* get_reviews_from_db: the query, the finally clause, and the driver's
\* test of the rows
FetchQuery ==
    /\ pc = "fetch_query"
    /\ store_fetches' = store_fetches + 1
    /\ \E ok \in BOOLEAN :
        /\ checked_out' = get_reviews_finally(connection_pool, checked_out, ok)
        /\ IF ok
           THEN \E rows \in StoreRows(TOTAL_TO_ANALYZE) :
                    /\ reviews' = rows
                    /\ pc' = IF IsEmptyFetch(rows) THEN "abort" ELSE "dispatch"
                    /\ error' = error
           ELSE /\ reviews' = reviews
                /\ pc' = "raised"
                /\ error' = "DatabaseError"
    /\ UNCHANGED <<OPENAI_API_KEY, APP_ID, BATCH_SIZE, connection_pool, tasks,
                   done_order, annot_calls, all_annotations, stats, synth_calls,
                   final_report, files, writes, perm_annotations, perm_stats,
                   storeVars, scraperVars>>

\* run_analysis: the loop that creates the process_batch coroutines; the
\* driver then awaits asyncio.gather(*tasks)
Dispatch ==
    /\ pc = "dispatch"
    /\ tasks' = MakeTasks(reviews, BATCH_SIZE)
    /\ pc' = "await"
    /\ UNCHANGED <<OPENAI_API_KEY, APP_ID, BATCH_SIZE, error, connection_pool,
                   checked_out, store_fetches, reviews, done_order, annot_calls,
                   all_annotations, stats, synth_calls, final_report, files, writes,
                   perm_annotations, perm_stats,
                   storeVars, scraperVars>>

\* process_batch up to its await: the event loop runs the tasks' first steps
\* in the order gather received them
TaskStart(k) ==
    /\ pc = "await"
    /\ k \in DOMAIN tasks
    /\ tasks[k].st = "created"
    /\ \A j \in 1..(k - 1) : tasks[j].st # "created"
    /\ IF PromptRaises(tasks[k].batch)
       THEN /\ tasks' = [tasks EXCEPT ![k].st = "raised"]
            /\ annot_calls' = annot_calls
       ELSE /\ tasks' = [tasks EXCEPT ![k].st = "waiting"]
            /\ annot_calls' = annot_calls + 1
    /\ UNCHANGED <<OPENAI_API_KEY, APP_ID, BATCH_SIZE, pc, error, connection_pool,
                   checked_out, store_fetches, reviews, done_order, all_annotations,
                   stats, synth_calls, final_report, files, writes,
                   perm_annotations, perm_stats,
                   storeVars, scraperVars>>

\* process_batch from its await to its return: the response, or the
\* exception the try block turns into []
TaskResolve(k) ==
    /\ pc = "await"
    /\ k \in DOMAIN tasks
    /\ AllStarted(tasks)
    /\ tasks[k].st = "waiting"
    /\ \E resp \in Responses :
        tasks' = [tasks EXCEPT ![k].st = "returned",
                               ![k].failed = (resp.kind # "ok"),
                               ![k].result = process_batch_result(resp)]
    /\ done_order' = Append(done_order, k)
    /\ UNCHANGED <<OPENAI_API_KEY, APP_ID, BATCH_SIZE, pc, error, connection_pool,
                   checked_out, store_fetches, reviews, annot_calls, all_annotations,
                   stats, synth_calls, final_report, files, writes,
                   perm_annotations, perm_stats,
                   storeVars, scraperVars>>

\* await asyncio.gather(*tasks) returning, and the loop extending
\* all_annotations with each result
GatherReturn ==
    /\ pc = "await"
    /\ AllStarted(tasks)
    /\ AllReturned(tasks)
    /\ all_annotations' = Flatten(GatherResults(tasks, done_order))
    /\ pc' = "aggregate"
    /\ UNCHANGED <<OPENAI_API_KEY, APP_ID, BATCH_SIZE, error, connection_pool,
                   checked_out, store_fetches, reviews, tasks, done_order, annot_calls,
                   stats, synth_calls, final_report, files, writes,
                   perm_annotations, perm_stats,
                   storeVars, scraperVars>>

\* await asyncio.gather(*tasks) raising: a task's exception is set on the
\* gather future at once (return_exceptions is False) and leaves run_analysis
GatherRaise ==
    /\ pc = "await"
    /\ AllStarted(tasks)
    /\ \E k \in DOMAIN tasks : tasks[k].st = "raised"
    /\ pc' = "raised"
    /\ error' = "TypeError"
    /\ UNCHANGED <<OPENAI_API_KEY, APP_ID, BATCH_SIZE, connection_pool, checked_out,
                   store_fetches, reviews, tasks, done_order, annot_calls,
                   all_annotations, stats, synth_calls, final_report, files, writes,
                   perm_annotations, perm_stats,
                   storeVars, scraperVars>>

\* run_analysis: stats = self.aggregate_stats(all_annotations)
Aggregate ==
    /\ pc = "aggregate"
    /\ stats' = aggregate_stats(all_annotations)
    /\ pc' = "synthesize"
    /\ UNCHANGED <<OPENAI_API_KEY, APP_ID, BATCH_SIZE, error, connection_pool,
                   checked_out, store_fetches, reviews, tasks, done_order, annot_calls,
                   all_annotations, synth_calls, final_report, files, writes,
                   perm_annotations, perm_stats,
                   storeVars, scraperVars>>

\* run_analysis: final_report = await self.generate_final_report(stats)
Synthesize ==
    /\ pc = "synthesize"
    /\ synth_calls' = synth_calls + 1
    /\ \E ok \in BOOLEAN :
        LET r == generate_final_report(ok)
        IN  IF r.raised
            THEN pc' = "raised" /\ error' = "APIError" /\ final_report' = final_report
            ELSE pc' = "persist" /\ error' = error /\ final_report' = r.value
    /\ UNCHANGED <<OPENAI_API_KEY, APP_ID, BATCH_SIZE, connection_pool, checked_out,
                   store_fetches, reviews, tasks, done_order, annot_calls,
                   all_annotations, stats, files, writes, perm_annotations, perm_stats,
                   storeVars, scraperVars>>

\* run_analysis: the report file, named by app identifier and the second
\* the clock shows, opened with mode "w"
Persist ==
    /\ pc = "persist"
    /\ \E t \in 1..MaxTime :
        files' = WriteFile(files, ReportPath(APP_ID, t), final_report)
    /\ writes' = writes + 1
    /\ pc' = "done"
    /\ UNCHANGED <<OPENAI_API_KEY, APP_ID, BATCH_SIZE, error, connection_pool,
                   checked_out, store_fetches, reviews, tasks, done_order, annot_calls,
                   all_annotations, stats, synth_calls, final_report,
                   perm_annotations, perm_stats,
                   storeVars, scraperVars>>

Next ==
    \/ Construct
    \/ FetchConnect
    \/ FetchQuery
    \/ Dispatch
    \/ \E k \in 1..(MaxReviews + 1) : TaskStart(k)
    \/ \E k \in 1..(MaxReviews + 1) : TaskResolve(k)
    \/ GatherReturn
    \/ GatherRaise
    \/ Aggregate
    \/ Synthesize
    \/ Persist

Spec == Init /\ [][Next]_vars

-----------------------------------------------------------------------------
(* Properties of the driver *)

PastBarrier == pc \in {"aggregate", "synthesize", "persist", "done"}

ConfigMissing == OPENAI_API_KEY = PyNone \/ APP_ID = <<>>

AllBatchesFailed ==
    /\ tasks # <<>>
    /\ \A k \in DOMAIN tasks : tasks[k].st = "returned" /\ tasks[k].failed

\* C1: when every dispatched batch fails, so that aggregate_stats gets the
\* empty list and returns the empty-stats sentinel, generate_final_report is
\* never invoked in that run (stated for a run with a complete configuration).
ClaimC1_NoSynthesisWhenAllFail ==
    (~ConfigMissing /\ AllBatchesFailed) => synth_calls = 0

\* C2: with the API credential or the app identifier missing, construction
\* is a hard failure: the run never gets past it, and no store fetch, no
\* annotation request, no synthesis call and no report write happens.
ClaimC2_MissingConfigIsFatal ==
    ConfigMissing =>
        /\ pc \in {"start", "raised"}
        /\ store_fetches = 0
        /\ annot_calls = 0
        /\ synth_calls = 0
        /\ writes = 0

\* C3: no exception escapes process_batch to the driver: whatever goes wrong
\* while a batch is handled, a NULL review content included, the task
\* returns (the empty list) and run_analysis is not left by the exception
\* (stated for a run with a complete configuration).
ClaimC3_NoExceptionEscapesBatch ==
    ~ConfigMissing =>
        /\ \A k \in DOMAIN tasks : tasks[k].st # "raised"
        /\ error # "TypeError"

\* C4: the driver waits at a join barrier: aggregation and synthesis start
\* only after every dispatched batch task has resolved; no task is
\* outstanding when aggregation begins.
TheoremC4_JoinBarrier ==
    PastBarrier =>
        /\ tasks # <<>>
        /\ \A k \in DOMAIN tasks : tasks[k].st = "returned"
        /\ Len(done_order) = Len(tasks)

\* a run past the barrier in which the first batch to finish had failed
\* while another was still pending
WitnessC4_FailedFirstOthersPending ==
    /\ pc = "aggregate"
    /\ Len(tasks) >= 2
    /\ tasks[done_order[1]].failed
    /\ ~tasks[done_order[2]].failed

Ceil(n, b) == (n + b - 1) \div b

Dispatched == pc \in {"await", "aggregate", "synthesize", "persist", "done"}
                \/ error = "TypeError"

\* C5: for N >= 1 reviews and batch size B > 0 the driver dispatches exactly
\* ceil(N/B) batches with ids 1..ceil(N/B); batch k is the contiguous slice
\* (k-1)B+1 .. min(kB, N), of size 1..B, and the batches concatenated in id
\* order are the input list.
TheoremC5_BatchesPartitionInput ==
    Dispatched =>
        LET N == Len(reviews)
            B == BATCH_SIZE
        IN  /\ N >= 1
            /\ Len(tasks) = Ceil(N, B)
            /\ \A k \in DOMAIN tasks :
                /\ tasks[k].batch_id = k
                /\ Len(tasks[k].batch) >= 1
                /\ Len(tasks[k].batch) <= B
                /\ tasks[k].batch =
                     [j \in 1..(Min(k * B, N) - (k - 1) * B) |-> reviews[(k - 1) * B + j]]
            /\ Flatten([k \in DOMAIN tasks |-> tasks[k].batch]) = reviews

\* three reviews in batches of two: a full batch and a partial one
WitnessC5_PartialLastBatch ==
    /\ pc = "await"
    /\ Len(reviews) = 3
    /\ BATCH_SIZE = 2
    /\ Len(tasks) = 2
    /\ Len(tasks[2].batch) = 1

RECURSIVE ConcatResults(_, _)
ConcatResults(ts, k) ==
    IF k = 0 THEN <<>> ELSE ConcatResults(ts, k - 1) \o ts[k].result

\* C7: batch completion order does not affect the outcome: whatever order
\* the tasks finished in, the flattened list is the per-batch results in
\* batch-id order, and the statistics given to synthesis are those of that
\* list.
TheoremC7_CompletionOrderIrrelevant ==
    PastBarrier =>
        /\ all_annotations = ConcatResults(tasks, Len(tasks))
        /\ pc # "aggregate" => stats = aggregate_stats(ConcatResults(tasks, Len(tasks)))

\* the second batch finished before the first and both returned different
\* annotations
WitnessC7_OutOfOrderCompletion ==
    /\ pc = "synthesize"
    /\ Len(tasks) >= 2
    /\ done_order[1] > done_order[2]
    /\ tasks[1].result = <<A1>>
    /\ tasks[2].result = <<A2>>

\* C8: a synthesis failure never aborts the run: generate_final_report does
\* not raise, a failed call yields the failure sentinel, and the run that
\* reaches DONE has opened one file for writing, which holds the returned
\* text alone (the sentinel after a failure), nothing appended or merged.
TheoremC8_SynthesisFailurePersisted ==
    /\ error # "APIError"
    /\ pc \in {"persist", "done"} => final_report \in {ReportText, FailureSentinel}
    /\ pc = "done" =>
        /\ writes = 1
        /\ \E f \in files :
            /\ f.path.app = replace_dots(APP_ID)
            /\ f.content = <<final_report>>
            /\ (files \ {f}) \subseteq {OldReport}
    /\ pc # "done" => writes = 0

\* the sentinel written over a report that was already at the path
WitnessC8_SentinelReportWritten ==
    /\ pc = "done"
    /\ final_report = FailureSentinel
    /\ files = { [path |-> OldReport.path, content |-> <<FailureSentinel>>] }

\* C9: a fetch failure is fatal: when get_reviews_from_db raises, the
\* connection checked out is back in the pool, the exception has left
\* run_analysis, and no annotation request, synthesis call or report file
\* was produced.
TheoremC9_FetchFailureFatal ==
    (pc = "raised" /\ error = "DatabaseError") =>
        /\ checked_out = 0
        /\ tasks = <<>>
        /\ annot_calls = 0
        /\ synth_calls = 0
        /\ writes = 0
        /\ files \subseteq {OldReport}

\* the query was sent on a checked-out connection and raised
WitnessC9_QueryRaised ==
    /\ pc = "raised"
    /\ error = "DatabaseError"
    /\ store_fetches = 1
    /\ connection_pool = "open"

Chain == <<"start", "fetch", "fetch_query", "dispatch", "await", "aggregate",
           "synthesize", "persist", "done">>

ChainStep(a, b) == \E i \in 1..(Len(Chain) - 1) : Chain[i] = a /\ Chain[i + 1] = b

EmptyFetchAborts ==
    /\ pc = "abort" =>
        /\ reviews = <<>>
        /\ store_fetches = 1
        /\ tasks = <<>>
        /\ annot_calls = 0
        /\ synth_calls = 0
        /\ writes = 0
        /\ files \subseteq {OldReport}
        /\ error = "none"
    /\ (pc \in {"dispatch", "await"} \/ PastBarrier) => reviews # <<>>

LinearStep ==
    pc' # pc =>
        \/ ChainStep(pc, pc')
        \/ pc = "fetch_query" /\ pc' = "abort"
        \/ pc \notin {"done", "abort", "raised"} /\ pc' = "raised" /\ error' # "none"

\* C10: the driver moves FETCH -> DISPATCH_BATCHES -> AWAIT_ALL -> AGGREGATE
\* -> SYNTHESIZE -> PERSIST -> DONE one step at a time and never backwards
\* (an exception is the only other way out); an empty fetch goes from FETCH
\* to ABORT, where no batch was dispatched, no annotation or synthesis call
\* made, no report written and no error raised, and only an empty fetch
\* does.
TheoremC10_LinearDriver ==
    [](EmptyFetchAborts) /\ [][LinearStep]_vars

WitnessC10_EmptyFetchAborted ==
    /\ pc = "abort"
    /\ store_fetches = 1
    /\ checked_out = 0

-----------------------------------------------------------------------------
(* aggregate_stats as a pure function: it is applied to a list of           *)
(* annotations and to a permutation of that list.                          *)

\* annotations as the model's responses can carry them: keys may be absent,
\* the defect type may be "None" or "Unknown"
AggAnnotations ==
    { Ann("U1", "P1", "Bug", "q1"),
      Ann("U1", "P2", "Bug", "q2"),
      Ann("U2", "P1", "None", "q1"),
      Ann("U2", "P1", "Unknown", "q2"),
      Ann(Missing, Missing, Missing, "q1"),
      Ann("U1", "P1", "Lag", Missing) }

Cats == <<"K1", "K2", "K3", "K4", "K5", "K6", "K7", "K8", "K9", "K10", "K11">>

\* eleven categories once each: every count ties across the top-10 cut
SeedTie == [i \in 1..Len(Cats) |-> Ann(Cats[i], "P1", Cats[i], "q1")]

\* ten categories twice and an eleventh once: the cut falls between counts
SeedNoTie == SeedTie \o SubSeq(SeedTie, 1, TopN)

LongSeeds == {SeedTie, SeedNoTie}

InsertAt(s, k, e) == SubSeq(s, 1, k - 1) \o <<e>> \o SubSeq(s, k, Len(s))

SwapAt(s, i, j) == [s EXCEPT ![i] = s[j], ![j] = s[i]]

InitAgg ==
    /\ OPENAI_API_KEY = "sk"
    /\ APP_ID = <<"a", ".", "b">>
    /\ BATCH_SIZE = 1
    /\ pc = "agg_input"
    /\ error = "none"
    /\ connection_pool = PyNone
    /\ checked_out = 0
    /\ store_fetches = 0
    /\ reviews = <<>>
    /\ tasks = <<>>
    /\ done_order = <<>>
    /\ annot_calls = 0
    /\ all_annotations = <<>>
    /\ stats = EmptyStats
    /\ synth_calls = 0
    /\ final_report = PyNone
    /\ files = {}
    /\ writes = 0
    /\ perm_annotations = <<>>
    /\ perm_stats = EmptyStats
    /\ StoreIdle
    /\ ScraperIdle

AggUnchanged ==
    UNCHANGED <<OPENAI_API_KEY, APP_ID, BATCH_SIZE, error, connection_pool,
                checked_out, store_fetches, reviews, tasks, done_order, annot_calls,
                synth_calls, final_report, files, writes, storeVars, scraperVars>>

\* one more annotation in the list, placed anywhere in the permutation
AggAppend ==
    /\ pc = "agg_input"
    /\ Len(all_annotations) < MaxAnn
    /\ \E a \in AggAnnotations, k \in 1..(Len(perm_annotations) + 1) :
        /\ all_annotations' = Append(all_annotations, a)
        /\ perm_annotations' = InsertAt(perm_annotations, k, a)
    /\ UNCHANGED <<pc, stats, perm_stats>>
    /\ AggUnchanged

\* a list long enough for the top-10 cut to drop a category
AggSeed ==
    /\ pc = "agg_input"
    /\ all_annotations = <<>>
    /\ \E seed \in LongSeeds :
        /\ all_annotations' = seed
        /\ perm_annotations' = seed
    /\ UNCHANGED <<pc, stats, perm_stats>>
    /\ AggUnchanged

\* the permutation of a long list: two of its annotations exchanged
AggSwap ==
    /\ pc = "agg_input"
    /\ Len(all_annotations) > TopN
    /\ perm_annotations = all_annotations
    /\ \E i, j \in DOMAIN all_annotations :
        /\ i < j
        /\ perm_annotations' = SwapAt(all_annotations, i, j)
    /\ UNCHANGED <<pc, all_annotations, stats, perm_stats>>
    /\ AggUnchanged

\* aggregate_stats applied to the list and to its permutation
AggApply ==
    /\ pc = "agg_input"
    /\ stats' = aggregate_stats(all_annotations)
    /\ perm_stats' = aggregate_stats(perm_annotations)
    /\ pc' = "agg_done"
    /\ UNCHANGED <<all_annotations, perm_annotations>>
    /\ AggUnchanged

NextAgg == AggAppend \/ AggSeed \/ AggSwap \/ AggApply

SpecAgg == InitAgg /\ [][NextAgg]_vars

\* C6 as stated: aggregate_stats returns identical AggregatedStats
\* (total_samples, usage_stats, persona_stats, con_stats with the categories
\* surviving the top-10 cut, and evidence) for a list and any permutation.
ClaimC6_OrderIndependent ==
    pc = "agg_done" => StatsEq(stats, perm_stats)

\* no two categories with the same count on either side of the top-10 cut
NoTieAtCut(ks) ==
    LET cnt == Counter(ks)
        top == most_common(cnt, TopN + 1)
    IN  Len(cnt) <= TopN \/ top[TopN].n > top[TopN + 1].n

QuoteCounts(ev) == { [k |-> ev[i].k, n |-> Len(ev[i].quotes)] : i \in DOMAIN ev }

\* C6, amended: for a list and any permutation of it, total_samples is the
\* same; usage_stats, persona_stats and con_stats hold the same categories
\* with the same count and percent whenever no two categories tie in count
\* across the dimension's top-10 cut; evidence has the same categories with
\* the same number of quotes each (which quotes, and in what order, follows
\* the order of the list).
TheoremC6_OrderIndependentCounts ==
    pc = "agg_done" =>
        /\ stats.total_samples = perm_stats.total_samples
        /\ NoTieAtCut(UsageKeys(all_annotations)) =>
                DictEq(stats.usage_stats, perm_stats.usage_stats)
        /\ NoTieAtCut(PersonaKeys(all_annotations)) =>
                DictEq(stats.persona_stats, perm_stats.persona_stats)
        /\ NoTieAtCut(ConKeys(all_annotations)) =>
                DictEq(stats.con_stats, perm_stats.con_stats)
        /\ QuoteCounts(stats.evidence) = QuoteCounts(perm_stats.evidence)

\* a permuted list of eleven categories whose cut dropped one, the same one
\* in both orders, and a list whose evidence quotes changed order
WitnessC6_PermutedWithCut ==
    /\ pc = "agg_done"
    /\ perm_annotations # all_annotations
    /\ Len(stats.usage_stats) = TopN
    /\ Len(Counter(UsageKeys(all_annotations))) = TopN + 1
    /\ NoTieAtCut(UsageKeys(all_annotations))
    /\ Keys(stats.usage_stats) = Keys(perm_stats.usage_stats)
    /\ stats.usage_stats # perm_stats.usage_stats

-----------------------------------------------------------------------------
(* aggregate_stats on lists of up to MaxPct annotations, one list for each  *)
(* way of spreading them over categories.                                   *)

Distinct(ks) == Cardinality({ ks[i] : i \in DOMAIN ks })

\* one more annotation: of a category already seen or of the next new one,
\* with that category as its defect type or with no defect
PctAppend ==
    /\ pc = "agg_input"
    /\ Len(all_annotations) < MaxPct
    /\ \E j \in 1..Min(Distinct(UsageKeys(all_annotations)) + 1, Len(Cats)) :
        \E c \in {"None", Cats[j]} :
            /\ all_annotations' = Append(all_annotations, Ann(Cats[j], Cats[j], c, "q1"))
            /\ perm_annotations' = Append(perm_annotations, Ann(Cats[j], Cats[j], c, "q1"))
    /\ UNCHANGED <<pc, stats, perm_stats>>
    /\ AggUnchanged

NextPct == PctAppend \/ AggApply

SpecPct == InitAgg /\ [][NextPct]_vars

RECURSIVE SumPercent(_)
SumPercent(d) == IF d = <<>> THEN 0 ELSE Head(d).percent + SumPercent(Tail(d))

RECURSIVE SumCount(_)
SumCount(d) == IF d = <<>> THEN 0 ELSE Head(d).count + SumCount(Tail(d))

Dimensions(st) == {st.usage_stats, st.persona_stats, st.con_stats}

\* C11 as stated: for a non-empty annotation list the reported percentages
\* of each of usage_stats, persona_stats and con_stats sum to at most 100%
\* (1000 tenths).
ClaimC11_PercentSumAtMost100 ==
    (pc = "agg_done" /\ all_annotations # <<>>) =>
        \A d \in Dimensions(stats) : SumPercent(d) <= 1000

\* C11, amended: for a non-empty list, in each dimension every reported
\* percentage is within 0.05 of count/total*100 (it is that value rounded to
\* one decimal), the counts sum to at most the number of annotations, and
\* the reported percentages sum to at most 100% plus 0.05% per reported
\* category.
TheoremC11_PercentSumWithinRounding ==
    (pc = "agg_done" /\ all_annotations # <<>>) =>
        LET total == Len(all_annotations)
        IN  /\ stats.total_samples = total
            /\ \A d \in Dimensions(stats) :
                /\ \A i \in DOMAIN d :
                    /\ 2 * (d[i].percent * total - 1000 * d[i].count) <= total
                    /\ 2 * (1000 * d[i].count - d[i].percent * total) <= total
                /\ SumCount(d) <= total
                /\ 2 * SumPercent(d) <= 2000 + Len(d)

\* six annotations in six categories: 16.7% each, 100.2% together
WitnessC11_SixCategories ==
    /\ pc = "agg_done"
    /\ Len(all_annotations) = 6
    /\ Len(stats.usage_stats) = 6
    /\ SumPercent(stats.usage_stats) = 1002
    /\ SumPercent(stats.con_stats) < 1000

-----------------------------------------------------------------------------
(* aggregate_stats on lists of up to MaxEv annotations whose quotes tell    *)
(* their position in the list.                                              *)

Quotes == <<"q1", "q2", "q3", "q4", "q5", "q6", "q7">>

\* the values the "c" field of an annotation can take: two defect types,
\* the two sentinels, the empty string, null and an absent key
DefectTypes == {"Bug", "Lag", "None", "Unknown", "", PyNone, Missing}

\* one more annotation, quoting its position (or, for a "Bug", no quote)
EvAppend ==
    /\ pc = "agg_input"
    /\ Len(all_annotations) < MaxEv
    /\ \E a \in { Ann("U1", "P1", c, Quotes[Len(all_annotations) + 1]) : c \in DefectTypes }
                \cup { Ann("U1", "P1", "Bug", Missing) } :
        /\ all_annotations' = Append(all_annotations, a)
        /\ perm_annotations' = Append(perm_annotations, a)
    /\ UNCHANGED <<pc, stats, perm_stats>>
    /\ AggUnchanged

NextEv == EvAppend \/ AggApply

SpecEv == InitAgg /\ [][NextEv]_vars

\* the annotations of defect type key, in input order
OfType(as, key) == LET Same(a) == a.c = key IN SelectSeq(as, Same)

\* C12: the evidence of aggregate_stats has no key "None" or "Unknown" and
\* no key for an annotation without a defect type (null, absent or empty);
\* every other defect type of the input has exactly one key; every evidence
\* list has between 1 and 3 quotes, which are the quotes of the first
\* min(3, k) annotations of that type in input order, k being the number of
\* annotations of the type.
TheoremC12_EvidenceFirstThree ==
    pc = "agg_done" =>
        LET ev == stats.evidence
            as == all_annotations
        IN  /\ Keys(ev) \cap {"None", "Unknown", "", PyNone, Missing} = {}
            /\ Keys(ev) = { as[i].c : i \in DOMAIN as } \ {"None", "Unknown", "", PyNone, Missing}
            /\ \A i, j \in DOMAIN ev : ev[i].k = ev[j].k => i = j
            /\ \A i \in DOMAIN ev :
                LET same == OfType(as, ev[i].k)
                    k == Len(same)
                IN  /\ Len(ev[i].quotes) >= 1
                    /\ Len(ev[i].quotes) <= 3
                    /\ Len(ev[i].quotes) = Min(3, k)
                    /\ \A q \in DOMAIN ev[i].quotes :
                        ev[i].quotes[q] = IF same[q].s = Missing THEN "" ELSE same[q].s

\* four "Bug" annotations around a "None" one: the fourth quote is left out
WitnessC12_FourthQuoteDropped ==
    /\ pc = "agg_done"
    /\ Len(OfType(all_annotations, "Bug")) = 4
    /\ Len(OfType(all_annotations, "None")) = 1
    /\ all_annotations[2].c = "None"
    /\ \E i \in DOMAIN stats.evidence :
        /\ stats.evidence[i].k = "Bug"
        /\ stats.evidence[i].quotes = <<"q1", "q3", "q4">>

-----------------------------------------------------------------------------
(* The top-10 cut of aggregate_stats, on the lists of SpecAgg.              *)

\* the number of keys of ks equal to key
Occurrences(ks, key) == Cardinality({ i \in DOMAIN ks : ks[i] = key })

\* dimension d reports at most TopN of the categories of ks, each once and
\* with its own count; a category is left out only of a full dimension and
\* only if no kept category has a smaller count
CutOf(ks, d) ==
    /\ Len(d) <= TopN
    /\ \A i, j \in DOMAIN d : d[i].k = d[j].k => i = j
    /\ \A i \in DOMAIN d :
        /\ \E n \in DOMAIN ks : ks[n] = d[i].k
        /\ d[i].count = Occurrences(ks, d[i].k)
    /\ \A n \in DOMAIN ks :
        ks[n] \notin Keys(d) =>
            /\ Len(d) = TopN
            /\ \A i \in DOMAIN d : Occurrences(ks, ks[n]) <= d[i].count

TopTenOf(as, st) ==
    /\ CutOf(UsageKeys(as), st.usage_stats)
    /\ CutOf(PersonaKeys(as), st.persona_stats)
    /\ CutOf(ConKeys(as), st.con_stats)
    /\ "None" \notin Keys(st.con_stats)
    /\ \A i \in DOMAIN as :
        as[i].c = "None" => Occurrences(ConKeys(as), "None") = 0

\* C17: each of usage_stats, persona_stats and con_stats has at most 10
\* entries; every category left out of a dimension has a count no greater
\* than the count of every category kept in it; each kept entry carries the
\* count of its own category only (nothing stands for the left-out ones);
\* con_stats never has the key "None".
TheoremC17_TopTenCutoff ==
    (pc = "agg_done" /\ all_annotations # <<>>) =>
        /\ TopTenOf(all_annotations, stats)
        /\ TopTenOf(perm_annotations, perm_stats)

\* eleven categories, the one met first has the smallest count and is the
\* one left out
WitnessC17_FirstMetLeftOut ==
    /\ pc = "agg_done"
    /\ Len(perm_annotations) > TopN
    /\ perm_annotations[1].u = "K11"
    /\ Occurrences(UsageKeys(perm_annotations), "K11") = 1
    /\ Len(perm_stats.usage_stats) = TopN
    /\ "K11" \notin Keys(perm_stats.usage_stats)
    /\ \A i \in DOMAIN perm_stats.usage_stats : perm_stats.usage_stats[i].count = 2

-----------------------------------------------------------------------------
(* The annotation phase of run_analysis on up to MaxBatchReviews fetched    *)
(* reviews, in batches of MaxBatchSize.                                     *)

\* run_analysis after get_reviews_from_db has returned a non-empty list
InitBatch ==
    /\ OPENAI_API_KEY = "sk"
    /\ APP_ID = <<"a", ".", "b">>
    /\ BATCH_SIZE = MaxBatchSize
    /\ pc = "dispatch"
    /\ error = "none"
    /\ connection_pool = "open"
    /\ checked_out = 0
    /\ store_fetches = 1
    /\ reviews \in StoreRows(MaxBatchReviews) \ {<<>>}
    /\ tasks = <<>>
    /\ done_order = <<>>
    /\ annot_calls = 0
    /\ all_annotations = <<>>
    /\ stats = EmptyStats
    /\ synth_calls = 0
    /\ final_report = PyNone
    /\ files = {}
    /\ writes = 0
    /\ perm_annotations = <<>>
    /\ perm_stats = EmptyStats
    /\ StoreIdle
    /\ ScraperIdle

NextBatch ==
    \/ Dispatch
    \/ \E k \in 1..MaxBatchReviews : TaskStart(k)
    \/ \E k \in 1..MaxBatchReviews : TaskResolve(k)
    \/ GatherReturn
    \/ GatherRaise
    \/ Aggregate

SpecBatch == InitBatch /\ [][NextBatch]_vars

\* the annotations returned by the batches that did not fail
RECURSIVE SucceededTotal(_)
SucceededTotal(ts) ==
    IF ts = <<>> THEN 0
    ELSE (IF Head(ts).failed THEN 0 ELSE Len(Head(ts).result)) + SucceededTotal(Tail(ts))

\* C13: a batch whose request fails (client error, timeout, malformed
\* JSON) contributes no annotation and does not stop the run; the list the
\* Aggregator receives has as many annotations as the succeeded batches
\* returned together, and total_samples is that number (no statistics at
\* all when it is zero).
TheoremC13_PartialBatchFailure ==
    /\ \A k \in DOMAIN tasks : tasks[k].failed => tasks[k].result = <<>>
    /\ pc = "raised" => \E k \in DOMAIN tasks : PromptRaises(tasks[k].batch)
    /\ pc \in {"aggregate", "synthesize"} =>
        Len(all_annotations) = SucceededTotal(tasks)
    /\ pc = "synthesize" =>
        IF SucceededTotal(tasks) = 0 THEN stats = EmptyStats
        ELSE stats.total_samples = SucceededTotal(tasks)

\* five reviews in batches of two; the second batch fails, the first and
\* the third return two annotations each
WitnessC13_FiveReviewsSecondBatchFails ==
    /\ pc = "synthesize"
    /\ Len(reviews) = 5
    /\ BATCH_SIZE = 2
    /\ Len(tasks) = 3
    /\ tasks[2].failed
    /\ Len(tasks[1].result) = 2
    /\ Len(tasks[3].result) = 2
    /\ stats.total_samples = 4

-----------------------------------------------------------------------------
(* Report files of two runs.  OldReport is the report an earlier run of     *)
(* the same application persisted; the present run is the second one.       *)

\* C16 as stated: a report file is never overwritten; two runs persist to
\* distinct paths, so every report on disk before a step is on disk,
\* unchanged, after it.
ClaimC16_ReportNeverOverwritten ==
    [][\A f \in files : f \in files']_vars

-----------------------------------------------------------------------------
(* The review store: the operations of database.py, analyzer.py and         *)
(* export_reviews.py that take a connection from the pool, called in any    *)
(* order by one process.                                                    *)

\* a dict google-play-scraper returns, reduced to two of its keys
Review(id, content) == [reviewId |-> id, content |-> content]

\* the lists insert_reviews is called with: empty, one review, the same
\* review_id twice in a call and across calls, a dict without reviewId
InsertBatches ==
    { <<>>,
      <<Review("r1", "c1")>>,
      <<Review("r1", "c2")>>,
      <<Review("r2", "c1")>>,
      <<Review("r1", "c1"), Review("r1", "c2")>>,
      <<Review("r1", "c2"), Review("r2", "c2")>>,
      <<Review(Missing, "c1")>>,
      <<Review("r2", "c1"), Review(Missing, "c2")>> }

\* insert_reviews: the tuple built for one review; r.get gives None for an
\* absent key
Row(r, app) == [review_id |-> Get(r.reviewId, PyNone), content |-> r.content, app_id |-> app]

InsertData(revs, app) == [i \in 1..Len(revs) |-> Row(revs[i], app)]

\* review_id and app_id are declared NOT NULL
ViolatesNotNull(data) ==
    \E i \in DOMAIN data : data[i].review_id = PyNone \/ data[i].app_id = PyNone

\* INSERT without the ON CONFLICT clause, on a table without the constraint
InsertAll(rows, data) == IF data = <<>> THEN rows ELSE rows \o data

\* INSERT ... ON CONFLICT (review_id) DO NOTHING: a row is added unless its
\* review_id is in the table or earlier in the same statement
RECURSIVE on_conflict_do_nothing(_, _)
on_conflict_do_nothing(rows, data) ==
    IF data = <<>> THEN rows
    ELSE LET d == Head(data)
             present == \E i \in DOMAIN rows : rows[i].review_id = d.review_id
         IN  on_conflict_do_nothing(IF present THEN rows ELSE Append(rows, d), Tail(data))

\* the statement of insert_reviews can succeed: execute_values sends nothing
\* for an empty list; otherwise the table must exist and take every row
InsertValid(tbl, data) ==
    data = <<>> \/ (tbl # PyNone /\ ~ViolatesNotNull(data))

\* the finally clause that skips the release after an exception
ReleaseUnlessError(pool, out, ok) ==
    IF ok THEN release_connection(pool, out) ELSE out

\* create_tables and insert_reviews, the finally clause: the connection
\* goes back whether or not the statement raised
write_finally(pool, out, ok) == release_connection(pool, out)

StoreOps == {"create_tables", "insert_reviews", "get_reviews_from_db", "export_reviews_to_json"}

\* one call in store_log: n the reviews passed, took and gave the
\* connections taken from and put back into the pool, added the rows the
\* table gained, raised whether an exception left the call
LogEntry(op, n, took, gave, added, raised) ==
    [op |-> op, n |-> n, took |-> took, gave |-> gave, added |-> added, raised |-> raised]

RowCount(tbl) == IF tbl = PyNone THEN 0 ELSE Len(tbl)

\* the body shared by create_tables and insert_reviews: get_connection
\* outside the try; execute and commit; on an exception rollback (which can
\* raise itself) and log; release in the finally clause
StoreWrite(op, n, valid, result) ==
    \E up \in BOOLEAN, stmt_ok \in BOOLEAN, rollback_ok \in BOOLEAN :
        LET g  == get_connection(PoolState(connection_pool, checked_out, pools_created), up)
            ok == stmt_ok /\ valid
        IN  /\ connection_pool' = g.pool
            /\ pools_created' = g.created
            /\ IF g.raised # "none"
               THEN /\ checked_out' = g.out
                    /\ table' = table
                    /\ store_log' = Append(store_log, LogEntry(op, n, 0, 0, 0, TRUE))
               ELSE /\ checked_out' = write_finally(g.pool, g.out, ok)
                    /\ table' = IF ok THEN result ELSE table
                    /\ store_log' = Append(store_log,
                          LogEntry(op, n, g.out - checked_out, g.out - checked_out',
                                   RowCount(table') - RowCount(table),
                                   ~ok /\ ~rollback_ok))

\* DatabaseManager.create_tables: CREATE TABLE IF NOT EXISTS
create_tables ==
    StoreWrite("create_tables", 0, TRUE, IF table = PyNone THEN <<>> ELSE table)

\* DatabaseManager.insert_reviews
insert_reviews(revs, app) ==
    StoreWrite("insert_reviews", Len(revs), InsertValid(table, InsertData(revs, app)),
               on_conflict_do_nothing(table, InsertData(revs, app)))

\* ReviewAnalyzer.get_reviews_from_db as one call: get_connection outside
\* the try, the SELECT, release in the finally clause; the exception of a
\* failed SELECT (no table, connection lost) leaves the call
get_reviews_from_db ==
    \E up \in BOOLEAN, stmt_ok \in BOOLEAN :
        LET g  == get_connection(PoolState(connection_pool, checked_out, pools_created), up)
            ok == stmt_ok /\ table # PyNone
        IN  /\ connection_pool' = g.pool
            /\ pools_created' = g.created
            /\ table' = table
            /\ IF g.raised # "none"
               THEN /\ checked_out' = g.out
                    /\ store_fetches' = store_fetches
                    /\ store_log' = Append(store_log,
                          LogEntry("get_reviews_from_db", 0, 0, 0, 0, TRUE))
               ELSE /\ checked_out' = get_reviews_finally(g.pool, g.out, ok)
                    /\ store_fetches' = store_fetches + 1
                    /\ store_log' = Append(store_log,
                          LogEntry("get_reviews_from_db", 0, g.out - checked_out,
                                   g.out - checked_out', 0, ~ok))

\* export_reviews_to_json: get_connection inside the try, every exception
\* logged; the finally clause releases the connection and closes the pool
\* when a connection was obtained
export_reviews_to_json ==
    \E up \in BOOLEAN :
        LET g == get_connection(PoolState(connection_pool, checked_out, pools_created), up)
        IN  /\ pools_created' = g.created
            /\ table' = table
            /\ IF g.raised # "none"
               THEN /\ connection_pool' = g.pool
                    /\ checked_out' = g.out
                    /\ store_log' = Append(store_log,
                          LogEntry("export_reviews_to_json", 0, 0, 0, 0, FALSE))
               ELSE /\ checked_out' = release_connection(g.pool, g.out)
                    /\ connection_pool' = close_all_connections(g.pool)
                    /\ store_log' = store_log \o
                          << LogEntry("export_reviews_to_json", 0, g.out - checked_out,
                                      g.out - checked_out', 0, FALSE),
                             LogEntry("close_all_connections", 0, 0, 0, 0, FALSE) >>

\* a process that has made no call yet; the table may be left from an
\* earlier process
InitStore ==
    /\ OPENAI_API_KEY = "sk"
    /\ APP_ID = <<"a", ".", "b">>
    /\ BATCH_SIZE = 1
    /\ pc = "store"
    /\ error = "none"
    /\ connection_pool = PyNone
    /\ checked_out = 0
    /\ store_fetches = 0
    /\ reviews = <<>>
    /\ tasks = <<>>
    /\ done_order = <<>>
    /\ annot_calls = 0
    /\ all_annotations = <<>>
    /\ stats = EmptyStats
    /\ synth_calls = 0
    /\ final_report = PyNone
    /\ files = {}
    /\ writes = 0
    /\ perm_annotations = <<>>
    /\ perm_stats = EmptyStats
    /\ pools_created = 0
    /\ table \in {PyNone, <<>>}
    /\ store_log = <<>>
    /\ ScraperIdle

StoreUnchanged ==
    UNCHANGED <<OPENAI_API_KEY, APP_ID, BATCH_SIZE, pc, error, reviews, tasks,
                done_order, annot_calls, all_annotations, stats, synth_calls,
                final_report, files, writes, perm_annotations, perm_stats, scraperVars>>

StoreCreateTables ==
    /\ pc = "store"
    /\ Len(store_log) < MaxStoreOps
    /\ create_tables
    /\ UNCHANGED store_fetches
    /\ StoreUnchanged

StoreInsertReviews ==
    /\ pc = "store"
    /\ Len(store_log) < MaxStoreOps
    /\ \E revs \in InsertBatches : insert_reviews(revs, APP_ID)
    /\ UNCHANGED store_fetches
    /\ StoreUnchanged

StoreGetReviews ==
    /\ pc = "store"
    /\ Len(store_log) < MaxStoreOps
    /\ get_reviews_from_db
    /\ StoreUnchanged

StoreExport ==
    /\ pc = "store"
    /\ Len(store_log) < MaxStoreOps
    /\ export_reviews_to_json
    /\ UNCHANGED store_fetches
    /\ StoreUnchanged

NextStore == StoreCreateTables \/ StoreInsertReviews \/ StoreGetReviews \/ StoreExport

SpecStore == InitStore /\ [][NextStore]_vars

\* C14: every store operation puts back the connection it took, exactly
\* once, whether it returned or raised (and takes none when get_connection
\* raised); after any sequence of store operations no connection is
\* checked out.
TheoremC14_GuaranteedRelease ==
    /\ checked_out = 0
    /\ \A i \in DOMAIN store_log :
        store_log[i].op \in StoreOps =>
            /\ store_log[i].took \in {0, 1}
            /\ store_log[i].gave = store_log[i].took

\* each of the four operations has taken a connection, one of them on a
\* path where its statement and then its rollback raised
WitnessC14_ReleasedOnErrorPath ==
    /\ checked_out = 0
    /\ \E i \in DOMAIN store_log :
        /\ store_log[i].op = "insert_reviews"
        /\ store_log[i].took = 1
        /\ store_log[i].raised
    /\ \E i \in DOMAIN store_log :
        /\ store_log[i].op = "get_reviews_from_db"
        /\ store_log[i].took = 1
        /\ store_log[i].raised
    /\ \E i \in DOMAIN store_log :
        /\ store_log[i].op = "export_reviews_to_json"
        /\ store_log[i].took = 1

\* C15: the table holds at most one row per review_id, and no insert_reviews
\* call changes or removes a row already there: a review whose review_id is
\* present (from an earlier call or from earlier in the same call) adds no
\* row.
TheoremC15_InsertIdempotent ==
    /\ [](table # PyNone =>
            \A i, j \in DOMAIN table : table[i].review_id = table[j].review_id => i = j)
    /\ [][table # PyNone =>
            /\ table' # PyNone
            /\ Len(table') >= Len(table)
            /\ SubSeq(table', 1, Len(table)) = table]_vars

\* a call with two reviews of the review_id the table holds since an earlier
\* call: it returned and the table has its one row
WitnessC15_DuplicateSkipped ==
    /\ table # PyNone
    /\ Len(table) = 1
    /\ table[1].content = "c1"
    /\ \E i \in DOMAIN store_log :
        /\ store_log[i].op = "insert_reviews"
        /\ store_log[i].n = 2
        /\ store_log[i].added = 0
        /\ ~store_log[i].raised
        /\ \E j \in 1..(i - 1) : store_log[j].added = 1

-----------------------------------------------------------------------------
(* The connection pool: the four class methods of DatabaseManager that      *)
(* touch _connection_pool, called in any order by one process.              *)

InitPool ==
    /\ InitStore
    /\ table = PyNone

PoolUnchanged ==
    UNCHANGED <<OPENAI_API_KEY, APP_ID, BATCH_SIZE, pc, error, store_fetches, reviews,
                tasks, done_order, annot_calls, all_annotations, stats, synth_calls,
                final_report, files, writes, perm_annotations, perm_stats, table,
                scraperVars>>

\* DatabaseManager.initialize_pool()
PoolInitialize ==
    /\ Len(store_log) < MaxPoolCalls
    /\ \E up \in BOOLEAN :
        LET r == initialize_pool(PoolState(connection_pool, checked_out, pools_created), up)
        IN  /\ connection_pool' = r.pool
            /\ pools_created' = r.created
            /\ store_log' = Append(store_log,
                  LogEntry("initialize_pool", 0, 0, 0, 0, r.raised # "none"))
    /\ UNCHANGED checked_out
    /\ PoolUnchanged

\* DatabaseManager.get_connection()
PoolGet ==
    /\ Len(store_log) < MaxPoolCalls
    /\ \E up \in BOOLEAN :
        LET r == get_connection(PoolState(connection_pool, checked_out, pools_created), up)
        IN  /\ connection_pool' = r.pool
            /\ pools_created' = r.created
            /\ checked_out' = r.out
            /\ store_log' = Append(store_log,
                  LogEntry("get_connection", 0, r.out - checked_out, 0, 0, r.raised # "none"))
    /\ PoolUnchanged

\* DatabaseManager.release_connection(conn), conn a connection the caller
\* got from get_connection and has not released
PoolRelease ==
    /\ Len(store_log) < MaxPoolCalls
    /\ checked_out > 0
    /\ checked_out' = release_connection(connection_pool, checked_out)
    /\ store_log' = Append(store_log,
          LogEntry("release_connection", 0, 0, checked_out - checked_out', 0,
                   release_raises(connection_pool)))
    /\ UNCHANGED <<connection_pool, pools_created>>
    /\ PoolUnchanged

\* DatabaseManager.close_all_connections()
PoolCloseAll ==
    /\ Len(store_log) < MaxPoolCalls
    /\ connection_pool' = close_all_connections(connection_pool)
    /\ store_log' = Append(store_log,
          LogEntry("close_all_connections", 0, 0, 0, 0, close_all_raises(connection_pool)))
    /\ UNCHANGED <<checked_out, pools_created>>
    /\ PoolUnchanged

NextPool == PoolInitialize \/ PoolGet \/ PoolRelease \/ PoolCloseAll

SpecPool == InitPool /\ [][NextPool]_vars

\* C18: whatever calls of initialize_pool, get_connection,
\* release_connection and close_all_connections a process makes, it builds
\* at most one pool (there is a pool object exactly when one was built), and
\* once the pool is closed no call builds a new one or hands out a
\* connection: the attribute keeps the closed pool.
TheoremC18_PoolBuiltAtMostOnce ==
    /\ [](pools_created <= 1 /\ (connection_pool = PyNone <=> pools_created = 0))
    /\ [][connection_pool = "closed" =>
            /\ connection_pool' = "closed"
            /\ pools_created' = pools_created
            /\ checked_out' = checked_out]_vars

\* get_connection called after close_all_connections: it raised, and the
\* one pool ever built is the closed one
WitnessC18_GetAfterClose ==
    /\ pools_created = 1
    /\ connection_pool = "closed"
    /\ \E i, j \in DOMAIN store_log :
        /\ i < j
        /\ store_log[i].op = "close_all_connections"
        /\ ~store_log[i].raised
        /\ store_log[j].op = "get_connection"
        /\ store_log[j].raised
        /\ store_log[j].took = 0

-----------------------------------------------------------------------------
(* GooglePlayScraper.fetch_reviews: the pagination loop of scraper.py.      *)

\* Config.SCRAPE_COUNT
SCRAPE_COUNT == MaxTarget

ScrapedReviews == {Review("r1", "c1"), Review("r2", "c1")}

\* what one call of reviews(..., count=count) can return: at most count
\* reviews
PageResults(count) == UNION { [1..k -> ScrapedReviews] : k \in 0..count }

Tokens == {PyNone, "token"}

\* one entry of pages: the count asked for, and the result and token that
\* came back (raised when the request raised instead)
PageEntry(count, raised, result, token) ==
    [count |-> count, raised |-> raised, result |-> result, token |-> token]

\* asking for a whole batch whatever remains
whole_batch(batch, target, collected) == batch

\* fetch_reviews: min(batch_size, target_count - len(all_reviews))
current_batch_count(batch, target, collected) == Min(batch, target - collected)

\* the analyzer has not run
AnalyzerIdle ==
    /\ OPENAI_API_KEY = "sk"
    /\ APP_ID = <<"a", ".", "b">>
    /\ BATCH_SIZE = 1
    /\ store_fetches = 0
    /\ reviews = <<>>
    /\ tasks = <<>>
    /\ done_order = <<>>
    /\ annot_calls = 0
    /\ all_annotations = <<>>
    /\ stats = EmptyStats
    /\ synth_calls = 0
    /\ final_report = PyNone
    /\ files = {}
    /\ writes = 0
    /\ perm_annotations = <<>>
    /\ perm_stats = EmptyStats

\* a call fetch_reviews(target_count, batch_size)
InitScrape ==
    /\ AnalyzerIdle
    /\ pc = "fetch_reviews"
    /\ error = "none"
    /\ connection_pool = PyNone
    /\ checked_out = 0
    /\ StoreIdle
    /\ target_count \in {NoneArg} \cup { IntArg(n) : n \in 0..MaxTarget }
    /\ batch_size \in 1..MaxPage
    /\ all_reviews = <<>>
    /\ continuation_token = PyNone
    /\ pages = <<>>

ScrapeUnchanged ==
    UNCHANGED <<analyzerVars, error, connection_pool, checked_out, storeVars>>

\* fetch_reviews up to the loop: target_count or Config.SCRAPE_COUNT
ScrapeEnter ==
    /\ pc = "fetch_reviews"
    /\ target_count' = IntArg(py_or(target_count, SCRAPE_COUNT))
    /\ all_reviews' = <<>>
    /\ continuation_token' = PyNone
    /\ pages' = <<>>
    /\ pc' = "scrape_loop"
    /\ UNCHANGED batch_size
    /\ ScrapeUnchanged

\* one pass through the loop body: the request, which returns a page and a
\* token or raises; the break on an empty page; extend; the break on an
\* absent token
ScrapePage ==
    /\ pc = "scrape_loop"
    /\ Len(all_reviews) < target_count.value
    /\ LET count == current_batch_count(batch_size, target_count.value, Len(all_reviews))
       IN  \/ /\ pages' = Append(pages, PageEntry(count, TRUE, <<>>, PyNone))
              /\ pc' = "scrape_exit"
              /\ UNCHANGED <<all_reviews, continuation_token>>
           \/ \E result \in PageResults(count), token \in Tokens :
                /\ pages' = Append(pages, PageEntry(count, FALSE, result, token))
                /\ IF result = <<>>
                   THEN /\ pc' = "scrape_exit"
                        /\ UNCHANGED <<all_reviews, continuation_token>>
                   ELSE /\ all_reviews' = all_reviews \o result
                        /\ continuation_token' = token
                        /\ pc' = IF token # PyNone THEN "scrape_loop" ELSE "scrape_exit"
    /\ UNCHANGED <<target_count, batch_size>>
    /\ ScrapeUnchanged

\* the loop condition failing, or a break or the except clause reached:
\* return all_reviews
ScrapeReturn ==
    /\ \/ pc = "scrape_exit"
       \/ pc = "scrape_loop" /\ ~(Len(all_reviews) < target_count.value)
    /\ pc' = "scrape_returned"
    /\ UNCHANGED scraperVars
    /\ ScrapeUnchanged

NextScrape == ScrapeEnter \/ ScrapePage \/ ScrapeReturn

\* the loop is sequential code: a step that can be taken is taken
SpecScrape == InitScrape /\ [][NextScrape]_vars /\ WF_vars(NextScrape)

\* the request recorded in entry e stops the loop: it raised, or returned
\* no review, or returned no token
StopsLoop(e) == e.raised \/ e.result = <<>> \/ e.token = PyNone

Collected(ps) == Flatten([i \in 1..Len(ps) |-> ps[i].result])

ScrapeSafe ==
    pc # "fetch_reviews" =>
        /\ error = "none"
        /\ pc \in {"scrape_loop", "scrape_exit", "scrape_returned"}
        /\ \A i \in DOMAIN pages : Len(pages[i].result) <= pages[i].count
        /\ Len(all_reviews) <= target_count.value
        /\ all_reviews = Collected(pages)
        /\ \A i \in 1..(Len(pages) - 1) : ~StopsLoop(pages[i])
        /\ (pages # <<>> /\ StopsLoop(pages[Len(pages)])) => pc # "scrape_loop"
        /\ pc = "scrape_returned" =>
            \/ Len(all_reviews) = target_count.value
            \/ pages # <<>> /\ StopsLoop(pages[Len(pages)])

\* C19: fetch_reviews returns and no exception leaves it.  With target_count
\* as the function holds it from its first statement on (the argument, or
\* Config.SCRAPE_COUNT when the argument is None or 0) and every page no
\* longer than the count asked for: a request is made only while fewer than
\* target_count reviews are collected and no earlier request raised, came
\* back empty or came back without a token; the result has at most
\* target_count reviews and is the concatenation of the pages received, so
\* after a request error it is exactly what the earlier pages gave.
TheoremC19_FetchReviewsTerminates ==
    /\ []ScrapeSafe
    /\ [][Len(pages') > Len(pages) =>
            (pc = "scrape_loop" /\ Len(all_reviews) < target_count.value)]_vars
    /\ <>(pc = "scrape_returned")

\* the second request raised: the call returned the first page alone,
\* short of its target
WitnessC19_ErrorKeepsEarlierPages ==
    /\ pc = "scrape_returned"
    /\ Len(pages) = 2
    /\ pages[2].raised
    /\ pages[1].result # <<>>
    /\ all_reviews = pages[1].result
    /\ Len(all_reviews) < target_count.value

-----------------------------------------------------------------------------
(* run_pipeline of main.py: create the table, scrape, insert, close.        *)

\* a finally clause that closes the pool only when no exception is pending
CloseUnlessRaised(pool, pending) ==
    IF pending = "none" THEN close_all_connections(pool) ELSE pool

\* run_pipeline, the finally clause: close_all_connections() whatever
\* exception is pending
run_pipeline_finally(pool, pending) == close_all_connections(pool)

\* a call run_pipeline(target_count) in a process that has made no
\* DatabaseManager call
InitPipe ==
    /\ AnalyzerIdle
    /\ pc = "run_pipeline"
    /\ error = "none"
    /\ connection_pool = PyNone
    /\ checked_out = 0
    /\ pools_created = 0
    /\ table \in {PyNone, <<>>}
    /\ store_log = <<>>
    /\ target_count \in { IntArg(n) : n \in 0..MaxTarget }
    /\ batch_size \in 1..MaxPage
    /\ all_reviews = <<>>
    /\ continuation_token = PyNone
    /\ pages = <<>>

\* run_pipeline, step 1: create_tables(); an exception is logged and the
\* function returns
PipeCreateTables ==
    /\ pc = "run_pipeline"
    /\ create_tables
    /\ pc' = IF store_log'[Len(store_log')].raised THEN "pipe_returned" ELSE "fetch_reviews"
    /\ UNCHANGED <<analyzerVars, error, scraperVars>>

\* an interrupt (a BaseException such as KeyboardInterrupt) while
\* fetch_reviews runs: neither except clause catches it
PipeInterrupt ==
    /\ pc \in {"fetch_reviews", "scrape_loop", "scrape_exit"}
    /\ error' = "KeyboardInterrupt"
    /\ pc' = "pipe_finally"
    /\ UNCHANGED <<analyzerVars, connection_pool, checked_out, storeVars, scraperVars>>

\* run_pipeline, from the return of fetch_reviews: return (through the
\* finally clause) when nothing was fetched, else insert_reviews
PipeInsert ==
    /\ pc = "scrape_returned"
    /\ IF all_reviews = <<>>
       THEN /\ error' = error
            /\ UNCHANGED <<connection_pool, checked_out, storeVars>>
       ELSE /\ insert_reviews(all_reviews, APP_ID)
            /\ error' = IF store_log'[Len(store_log')].raised THEN "Exception" ELSE error
    /\ pc' = "pipe_finally"
    /\ UNCHANGED <<analyzerVars, scraperVars>>

\* run_pipeline, the except and finally clauses: an Exception is logged, the
\* pool is closed, anything else goes on to the caller
PipeFinally ==
    /\ pc = "pipe_finally"
    /\ connection_pool' = run_pipeline_finally(connection_pool, error)
    /\ store_log' = Append(store_log,
          LogEntry("close_all_connections", 0, 0, 0, 0, close_all_raises(connection_pool)))
    /\ IF error = "KeyboardInterrupt"
       THEN pc' = "pipe_raised" /\ error' = error
       ELSE pc' = "pipe_returned" /\ error' = "none"
    /\ UNCHANGED <<analyzerVars, checked_out, pools_created, table, scraperVars>>

NextPipe ==
    \/ PipeCreateTables
    \/ ScrapeEnter
    \/ ScrapePage
    \/ ScrapeReturn
    \/ PipeInterrupt
    \/ PipeInsert
    \/ PipeFinally

SpecPipe == InitPipe /\ [][NextPipe]_vars

\* create_tables returned: the run went past table initialisation
PassedInit ==
    /\ store_log # <<>>
    /\ store_log[1].op = "create_tables"
    /\ ~store_log[1].raised

Closes == { i \in DOMAIN store_log : store_log[i].op = "close_all_connections" }

\* C20: in a run of run_pipeline that went past table initialisation, when
\* the function is left (by return or by an exception) close_all_connections
\* has been called exactly once, as the last call on the store, and the pool
\* is closed with no connection out; this on the paths where nothing was
\* scraped, where the insertion returned, and where scraping or insertion
\* raised.  At no time has the pool been closed twice or a store operation
\* followed the close, and insert_reviews is never called with an empty
\* list.
TheoremC20_PipelineClosesPool ==
    /\ Cardinality(Closes) <= 1
    /\ \A i \in Closes : i = Len(store_log) /\ ~store_log[i].raised
    /\ \A i \in DOMAIN store_log :
        store_log[i].op = "insert_reviews" => store_log[i].n > 0
    /\ (pc \in {"pipe_returned", "pipe_raised"} /\ PassedInit) =>
        /\ Cardinality(Closes) = 1
        /\ connection_pool = "closed"
        /\ checked_out = 0

\* the insertion raised (its statement and its rollback failed): the run
\* logged it and closed the pool after it
WitnessC20_ClosedAfterFailedInsert ==
    /\ pc = "pipe_returned"
    /\ Len(store_log) = 3
    /\ store_log[2].op = "insert_reviews"
    /\ store_log[2].raised
    /\ store_log[3].op = "close_all_connections"
    /\ connection_pool = "closed"

====
